---- MODULE Spec2Model ----
(***************************************************************************)
(* Model of src/Python/logger_wrapper.py: the LoggerWrapper facade over    *)
(* the process-wide loguru logger.                                         *)
(*                                                                         *)
(* The source holds the constructor (lines 67-85), the registration of     *)
(* the file and console handlers (lines 87-112) and the attribute proxy    *)
(* __getattr__ (lines 114-116).  The dispatch of a record to the handlers, *)
(* the rollover and the compression/deletion sweep are not in the source   *)
(* (they belong to the logging library); they are modelled from sections   *)
(* 4.1, 4.2 and 4.4 of the specification and are marked as such.           *)
(***************************************************************************)
EXTENDS Integers, Sequences, FiniteSets, TLC

VARIABLES
    pc,         \* position of LoggerWrapper.__init__: the line to run next
    inst,       \* names in the instance __dict__ of the facade
    exc,        \* exception that left __init__ ("none" while there is none)
    handlers,   \* handlers registered on the process-wide logger
    dirExists,  \* whether the log directory exists on disk
    files,      \* log directory: file date -> "absent" | "plain" | "zip"
    day,        \* wall-clock date, in days
    openedAt,   \* date on which __init__ ended (-1 before it has ended)
    emitted,    \* the records emitted so far, in order
    console,    \* indices of the records written to stderr, in order
    fileLines,  \* lines written by the file sink: [rec, date]
    accessed    \* attribute accesses made on the facade: [name, result]

vars == <<pc, inst, exc, handlers, dirExists, files, day, openedAt,
          emitted, console, fileLines, accessed>>

---------------------------------------------------------------------------
(* Bounds of the model *)

MaxDay == 2

MaxRecords == 2

NumEmitters == 2

MaxAccess == 3

---------------------------------------------------------------------------
(* Class attributes of LoggerWrapper, lines 41-51 *)

DEFAULT_LEVEL_FILE == "DEBUG"

DEFAULT_LEVEL_CONSOLE == "INFO"

DEFAULT_RETENTION == 45

DEFAULT_COMPRESSION_DELAY == 7

DEFAULT_ENQUEUE == TRUE

\* vars(LoggerWrapper): every name bound in the class body (lines 37-116,
\* the docstring included) and the entries the class statement adds itself.
ClassAttrs ==
    { "DEFAULT_APP_NAME", "DEFAULT_LOGS_DIR", "DEFAULT_LEVEL_FILE",
      "DEFAULT_LEVEL_CONSOLE", "DEFAULT_RETENTION", "DEFAULT_ROTATION",
      "DEFAULT_COMPRESSION_DELAY", "DEFAULT_ENQUEUE", "FILE_FORMAT",
      "CONSOLE_FORMAT", "__init__", "_ensure_logs_directory",
      "_configure_file_handler", "_configure_console_handler",
      "__getattr__", "__doc__", "__module__", "__dict__", "__weakref__" }

\* dir(object): the names every Python object answers.  LoggerWrapper is
\* declared without a base (line 36), so its lookup ends in object, and the
\* underlying logger is an object as well.
ObjectAttrs ==
    { "__class__", "__delattr__", "__dir__", "__doc__", "__eq__",
      "__format__", "__ge__", "__getattribute__", "__getstate__", "__gt__",
      "__hash__", "__init__", "__init_subclass__", "__le__", "__lt__",
      "__ne__", "__new__", "__reduce__", "__reduce_ex__", "__repr__",
      "__setattr__", "__sizeof__", "__str__", "__subclasshook__" }

\* The data descriptors among them: the type answers these names before the
\* instance __dict__ is looked at.
DataDescriptors == { "__class__", "__dict__", "__weakref__" }

\* The attributes of the underlying logger (the loguru logger imported at
\* line 30): the methods the source calls (lines 18-21: debug, info, warning,
\* error; line 76: remove; line 91: add), the rest of the logger's methods
\* and fields, the names of any object, and those every instance of a class
\* written in Python has.
LoggerAttrs ==
    { "add", "remove", "complete", "catch", "opt", "bind", "contextualize",
      "patch", "level", "disable", "enable", "configure", "parse",
      "trace", "debug", "info", "success", "warning", "error", "critical",
      "exception", "log", "start", "stop", "_core", "_options", "_log",
      "__module__", "__dict__", "__weakref__" } \cup ObjectAttrs

\* The names read on the facade: by __init__ and its helpers (logger,
\* _ensure_logs_directory, logs_dir, app_name, DEFAULT_LEVEL_FILE), by
\* client code through the proxy (lines 18-21), and by the interpreter
\* (__class__, __repr__, __ne__, __doc__).
Names ==
    { "logger", "_ensure_logs_directory", "DEFAULT_LEVEL_FILE",
      "logs_dir", "app_name", "debug", "info", "critical", "bind", "add",
      "__class__", "__repr__", "__ne__", "__doc__" }

---------------------------------------------------------------------------
(* Severities *)

Levels == { "DEBUG", "INFO", "WARNING", "ERROR", "CRITICAL" }

Sev(l) ==
    CASE l = "DEBUG"    -> 10
      [] l = "INFO"     -> 20
      [] l = "WARNING"  -> 30
      [] l = "ERROR"    -> 40
      [] l = "CRITICAL" -> 50

Emitters == 1..NumEmitters

\* Ages of the log files a previous run may have left in the directory.
OldAges == { 1, DEFAULT_COMPRESSION_DELAY, DEFAULT_RETENTION }

Dates == { 0 - a : a \in OldAges } \cup (0..MaxDay)

---------------------------------------------------------------------------
(* Attribute access on the facade *)

Found(kind, name) == [kind |-> kind, name |-> name]

Raise(name) == [kind |-> "raise", name |-> name]

\* A facade without the proxy: a name it does not define is an error.
GetAttrNoProxy(instAttrs, name) == Raise("AttributeError")

\* LoggerWrapper.__getattr__ (lines 114-116), called when the normal lookup
\* fails: getattr(self.logger, name).  Reading self.logger inside it is a
\* lookup of its own, which re-enters __getattr__ without end when the
\* instance has no logger yet; the logger raises AttributeError for a name
\* it does not define.
GetAttr(instAttrs, name) ==
    IF "logger" \notin instAttrs THEN Raise("RecursionError")
    ELSE IF name \in LoggerAttrs THEN Found("logger", name)
    ELSE Raise("AttributeError")

\* The name as the type answers it: LoggerWrapper first, then object.
TypeLookup(name) ==
    IF name \in ClassAttrs THEN Found("class", name) ELSE Found("object", name)

\* self.<name>: a data descriptor of the type, then the instance __dict__,
\* then the classes of the MRO (LoggerWrapper, then object), and
\* __getattr__ only when all of them fail.
GetAttribute(instAttrs, name) ==
    IF name \in DataDescriptors THEN TypeLookup(name)
    ELSE IF name \in instAttrs THEN Found("instance", name)
    ELSE IF name \in ClassAttrs \cup ObjectAttrs THEN TypeLookup(name)
    ELSE GetAttr(instAttrs, name)

Access(instAttrs, name) == [name |-> name, result |-> GetAttribute(instAttrs, name)]

Raised(r) == r.kind = "raise"

\* The attribute reads of one statement, in evaluation order, up to and
\* including the first that raises.
RECURSIVE ReadAll(_, _)
ReadAll(instAttrs, names) ==
    IF names = <<>> THEN <<>>
    ELSE LET a == Access(instAttrs, Head(names)) IN
         IF Raised(a.result) THEN <<a>>
         ELSE <<a>> \o ReadAll(instAttrs, Tail(names))

\* The exception a sequence of reads ended with ("none": all succeeded).
Failure(reads) ==
    IF reads # <<>> /\ Raised(reads[Len(reads)].result)
    THEN reads[Len(reads)].result.name
    ELSE "none"

---------------------------------------------------------------------------
(* Handlers *)

Handler(sink, level, enqueue, opened) ==
    [sink |-> sink, level |-> level, enqueue |-> enqueue, opened |-> opened]

\* The handler the logging library starts with ("стандартный обработчик",
\* line 75): absent, or a stderr handler at some level.
DefaultHandlers ==
    { {} } \cup { { Handler("stderr", l, FALSE, 0) } : l \in { "DEBUG", "WARNING" } }

FileHandlers == { h \in handlers : h.sink = "file" }

ConsoleHandlers == { h \in handlers : h.sink = "stderr" }

Accepts(h, l) == Sev(l) >= Sev(h.level)

Ended == pc \in { "done", "raised" }

---------------------------------------------------------------------------
(* LoggerWrapper.__init__, one statement at a time *)

\* An exception leaves __init__: nothing after the raising statement runs.
Throw(name, log) ==
    /\ pc' = "raised"
    /\ exc' = name
    /\ openedAt' = day
    /\ accessed' = log

\* line 73: self.logger = logger
AssignLogger ==
    /\ inst' = inst \cup { "logger" }
    /\ pc' = "l76"
    /\ UNCHANGED <<exc, handlers, dirExists, files, openedAt, accessed>>

\* line 76: self.logger.remove()
RemoveHandlers ==
    LET reads == ReadAll(inst, <<"logger">>) IN
    IF Failure(reads) # "none"
    THEN Throw(Failure(reads), accessed \o reads)
         /\ UNCHANGED <<inst, handlers, dirExists, files>>
    ELSE /\ handlers' = {}
         /\ pc' = "l79"
         /\ accessed' = accessed \o reads
         /\ UNCHANGED <<inst, exc, dirExists, files, openedAt>>

\* lines 79, 83-85: self._ensure_logs_directory(), whose body is
\* self.logs_dir.mkdir(parents=True, exist_ok=True)
EnsureLogsDirectory ==
    LET reads == ReadAll(inst, <<"_ensure_logs_directory", "logs_dir">>) IN
    IF Failure(reads) # "none"
    THEN Throw(Failure(reads), accessed \o reads)
         /\ UNCHANGED <<inst, handlers, dirExists, files>>
    ELSE /\ dirExists' = TRUE
         /\ pc' = "l80"
         /\ accessed' = accessed \o reads
         /\ UNCHANGED <<inst, exc, handlers, files, openedAt>>

\* The keywords logger.add receives at lines 92-102.
FileKeywords ==
    { "sink", "rotation", "retention", "compression", "compression_delay",
      "level", "encoding", "enqueue", "backtrace", "diagnose", "format" }

\* The keywords logger.add takes for any sink, and those its file sink
\* takes; every other keyword of a file sink is handed to open().
AddOptions ==
    { "sink", "level", "format", "filter", "colorize", "serialize",
      "backtrace", "diagnose", "enqueue", "context", "catch" }

FileSinkOptions ==
    { "rotation", "retention", "compression", "delay", "watch", "mode",
      "buffering", "encoding" }

\* The keywords of the builtin open().
OpenOptions ==
    { "mode", "buffering", "encoding", "errors", "newline", "closefd", "opener" }

\* The attributes _configure_file_handler reads, in order (lines 89-102).
FileReads ==
    << "_configure_file_handler", "logs_dir", "app_name", "logger",
       "DEFAULT_ROTATION", "DEFAULT_RETENTION", "DEFAULT_COMPRESSION_DELAY",
       "DEFAULT_LEVEL_FILE", "DEFAULT_ENQUEUE", "FILE_FORMAT" >>

\* lines 80, 87-103: self._configure_file_handler(): the path is built from
\* self.logs_dir and self.app_name and the file sink is added.  The sink
\* creates the directory of its path and opens the file named for the
\* current date, passing the keywords it does not know to open(); open()
\* rejects a keyword it does not know (compression_delay) with TypeError,
\* and then no file is created and no handler is registered.
ConfigureFileHandler ==
    LET reads == ReadAll(inst, FileReads)
        passed == FileKeywords \ (AddOptions \cup FileSinkOptions)
    IN
    IF Failure(reads) # "none"
    THEN Throw(Failure(reads), accessed \o reads)
         /\ UNCHANGED <<inst, handlers, dirExists, files>>
    ELSE IF ~(passed \subseteq OpenOptions)
    THEN Throw("TypeError", accessed \o reads)
         /\ dirExists' = TRUE
         /\ UNCHANGED <<inst, handlers, files>>
    ELSE /\ handlers' = handlers \cup
                { Handler("file", DEFAULT_LEVEL_FILE, DEFAULT_ENQUEUE, day) }
         /\ dirExists' = TRUE
         /\ files' = [files EXCEPT ![day] = "plain"]
         /\ pc' = "l81"
         /\ accessed' = accessed \o reads
         /\ UNCHANGED <<inst, exc, openedAt>>

\* The attributes _configure_console_handler reads, in order (lines 107-111).
ConsoleReads ==
    << "_configure_console_handler", "logger", "DEFAULT_LEVEL_CONSOLE",
       "CONSOLE_FORMAT" >>

\* lines 81, 105-112: self._configure_console_handler()
ConfigureConsoleHandler ==
    LET reads == ReadAll(inst, ConsoleReads) IN
    IF Failure(reads) # "none"
    THEN Throw(Failure(reads), accessed \o reads)
         /\ UNCHANGED <<inst, handlers, dirExists, files>>
    ELSE /\ handlers' = handlers \cup
               { Handler("stderr", DEFAULT_LEVEL_CONSOLE, FALSE, day) }
         /\ pc' = "done"
         /\ openedAt' = day
         /\ accessed' = accessed \o reads
         /\ UNCHANGED <<inst, exc, dirExists, files>>

\* LoggerWrapper.__init__ (lines 67-81): the statement at pc runs.
InitStep ==
    /\ pc \in { "l73", "l76", "l79", "l80", "l81" }
    /\ CASE pc = "l73" -> AssignLogger
         [] pc = "l76" -> RemoveHandlers
         [] pc = "l79" -> EnsureLogsDirectory
         [] pc = "l80" -> ConfigureFileHandler
         [] pc = "l81" -> ConfigureConsoleHandler
    /\ UNCHANGED <<day, emitted, console, fileLines>>

---------------------------------------------------------------------------
(* The logging library behind the facade: dispatch, rollover and sweep *)

Age(d) == day - d

\* One compression/deletion sweep over the directory on date `today`, the
\* file dated `active` being the one open for append.
Sweep(fs, today, active) ==
    [d \in DOMAIN fs |->
        IF d = active \/ fs[d] = "absent" THEN fs[d]
        ELSE IF today - d >= DEFAULT_RETENTION THEN "absent"
        ELSE IF today - d >= DEFAULT_COMPRESSION_DELAY THEN "zip"
        ELSE fs[d]]

\* The date of the file a write on date `today` goes to: the open file, or
\* the file of the new date once the boundary (rotation="00:00", midnight)
\* has been crossed; never a file of an earlier date.
WriteDate(h, today) == IF today > h.opened THEN today ELSE h.opened

\* An emitter emits one record at level l: every registered handler whose
\* threshold the record meets receives it.  The file sink rolls over first
\* when the date has changed since its file was opened, and sweeps.
Emit(e, l) ==
    LET i == Len(emitted) + 1
        r == [level |-> l, by |-> e, day |-> day, cfg |-> Ended]
        fh == { h \in FileHandlers : Accepts(h, l) }
    IN
    /\ Len(emitted) < MaxRecords
    /\ emitted' = Append(emitted, r)
    /\ console' = IF \E h \in ConsoleHandlers : Accepts(h, l)
                  THEN Append(console, i) ELSE console
    /\ IF fh = {}
       THEN UNCHANGED <<handlers, files, fileLines>>
       ELSE LET h == CHOOSE x \in fh : TRUE
                date == WriteDate(h, day)
            IN
            /\ handlers' = (handlers \ { h }) \cup { [h EXCEPT !.opened = date] }
            /\ files' = Sweep([files EXCEPT ![date] = "plain"], day, date)
            /\ fileLines' = Append(fileLines, [rec |-> i, date |-> date])
    /\ UNCHANGED <<pc, inst, exc, dirExists, day, openedAt, accessed>>

\* The wall clock passes the rotation boundary (midnight).
Tick ==
    /\ day < MaxDay
    /\ day' = day + 1
    /\ UNCHANGED <<pc, inst, exc, handlers, dirExists, files, openedAt,
                   emitted, console, fileLines, accessed>>

\* The directory as a previous run may have left it: nothing dated in the
\* future, an archive only of a file old enough to have been compressed,
\* and no file without the directory.
OldFiles ==
    { f \in [Dates -> { "absent", "plain", "zip" }] :
        /\ \A d \in Dates : d > 0 => f[d] = "absent"
        /\ \A d \in Dates : f[d] = "zip" => 0 - d >= DEFAULT_COMPRESSION_DELAY }

NoFiles == [d \in Dates |-> "absent"]

Init ==
    /\ pc = "l73"
    /\ inst = {}
    /\ exc = "none"
    /\ handlers \in DefaultHandlers
    /\ dirExists \in BOOLEAN
    /\ files \in IF dirExists THEN OldFiles ELSE { NoFiles }
    /\ day = 0
    /\ openedAt = -1
    /\ emitted = <<>>
    /\ console = <<>>
    /\ fileLines = <<>>
    /\ accessed = <<>>

Next ==
    \/ InitStep
    \/ \E e \in Emitters, l \in Levels : Emit(e, l)
    \/ Tick

Spec == Init /\ [][Next]_vars

---------------------------------------------------------------------------
(* Attribute access as a function of the name: the facade as it stands    *)
(* after line 73, read under every name of Names                          *)

ReadAttr(name) ==
    /\ Len(accessed) < MaxAccess
    /\ accessed' = Append(accessed, Access(inst, name))
    /\ UNCHANGED <<pc, inst, exc, handlers, dirExists, files, day, openedAt,
                   emitted, console, fileLines>>

AttrInit ==
    /\ pc = "l76"
    /\ inst = { "logger" }
    /\ exc = "none"
    /\ handlers = {}
    /\ dirExists = TRUE
    /\ files = NoFiles
    /\ day = 0
    /\ openedAt = -1
    /\ emitted = <<>>
    /\ console = <<>>
    /\ fileLines = <<>>
    /\ accessed = <<>>

AttrNext == \E name \in Names : ReadAttr(name)

AttrSpec == AttrInit /\ [][AttrNext]_vars

---------------------------------------------------------------------------
(* Properties *)

Records == 1..Len(emitted)

\* The records emitted once the construction of the facade has ended.
Configured == { i \in Records : emitted[i].cfg }

InFile(i) == \E k \in 1..Len(fileLines) : fileLines[k].rec = i

InConsole(i) == \E k \in 1..Len(console) : console[k] = i

Active(d) == \E h \in FileHandlers : h.opened = d

\* The names the facade defines itself: its instance attributes and the
\* entries of its class.
FacadeDefines(name) == name \in inst \cup ClassAttrs

\* The names the normal lookup answers without __getattr__: those the
\* facade defines and those it inherits from object.
FacadeAnswers(name) == FacadeDefines(name) \/ name \in ObjectAttrs

\* A write has been made on the current date after a rotation boundary was
\* crossed since the construction ended: the rollover, and the sweep it
\* triggers, are due.
SweepDue ==
    /\ Ended
    /\ day > openedAt
    /\ \E i \in Configured : emitted[i].day = day

\* C1: a record emitted through the configured facade appears in the file
\* sink's output exactly when its severity is at least DEBUG, and in the
\* console sink's output exactly when its severity is at least INFO.
C1_ThresholdRouting ==
    \A i \in Configured :
        /\ InFile(i) <=> Sev(emitted[i].level) >= Sev(DEFAULT_LEVEL_FILE)
        /\ InConsole(i) <=> Sev(emitted[i].level) >= Sev(DEFAULT_LEVEL_CONSOLE)

\* C2: once the facade is constructed the file sink has exactly one active
\* file, and that file is open for append (present and not archived).
C2_OneActiveFile ==
    Ended =>
        /\ Cardinality(FileHandlers) = 1
        /\ \A h \in FileHandlers : files[h.opened] = "plain"

\* C3: a record written after the boundary was crossed is in the file of
\* its own date (the rollover happened no later than that write), and no
\* line is ever in a file dated after the record was written (no rollover
\* before the boundary).
C3_RolloverAtBoundary ==
    /\ \A i \in Configured :
          emitted[i].day > openedAt =>
              \E k \in 1..Len(fileLines) :
                  fileLines[k] = [rec |-> i, date |-> emitted[i].day]
    /\ \A k \in 1..Len(fileLines) :
          fileLines[k].date <= emitted[fileLines[k].rec].day

\* C4: once a sweep is due, no file other than the active one whose age has
\* reached the compression delay is still uncompressed.
C4_CompressedAfterDelay ==
    SweepDue =>
        \A d \in Dates :
            (Age(d) >= DEFAULT_COMPRESSION_DELAY /\ ~Active(d)) => files[d] # "plain"

\* C5: once a sweep is due, no file whose age has reached the retention
\* duration is left in the directory, compressed or not.
C5_DeletedAfterRetention ==
    SweepDue =>
        \A d \in Dates : Age(d) >= DEFAULT_RETENTION => files[d] = "absent"

\* C6: when every emitter has written through the configured facade on one
\* date, the file holds each of the N records exactly once, all in one file.
C6_ExactlyNRecords ==
    ( /\ \A e \in Emitters : \E i \in Configured : emitted[i].by = e
      /\ \A i, j \in Configured : emitted[i].day = emitted[j].day )
    =>
    /\ Len(fileLines) = Cardinality(Configured)
    /\ \A i \in Configured :
          Cardinality({ k \in 1..Len(fileLines) : fileLines[k].rec = i }) = 1
    /\ \A k, m \in 1..Len(fileLines) : fileLines[k].date = fileLines[m].date

\* C7 (as amended): a name the facade neither defines nor inherits from
\* object is looked up on the underlying logger: the access yields the
\* logger's attribute when the logger defines the name and raises
\* AttributeError when it does not (RecursionError while the facade has no
\* logger yet); a name inherited from object is answered by the facade
\* itself and is not delegated.
C7_Delegation ==
    \A k \in 1..Len(accessed) :
        LET n == accessed[k].name IN
        /\ ~FacadeAnswers(n) =>
              accessed[k].result =
                  IF "logger" \notin inst
                  THEN [kind |-> "raise", name |-> "RecursionError"]
                  ELSE IF n \in LoggerAttrs
                  THEN [kind |-> "logger", name |-> n]
                  ELSE [kind |-> "raise", name |-> "AttributeError"]
        /\ (n \in ObjectAttrs /\ ~FacadeDefines(n)) =>
              accessed[k].result = [kind |-> "object", name |-> n]

\* C7 (as stated): every access of a name the facade does not define itself
\* yields the logger's attribute and does not fail.
C7_NeverFails ==
    \A k \in 1..Len(accessed) :
        ~FacadeDefines(accessed[k].name) => accessed[k].result.kind = "logger"

\* C7, witness: on a facade that holds its logger, one undefined name was
\* served by the logger, another was refused by it, and a name inherited
\* from object was answered without the logger.
C7_Witness ==
    /\ "logger" \in inst
    /\ \E k \in 1..Len(accessed) :
          /\ ~FacadeAnswers(accessed[k].name)
          /\ accessed[k].result.kind = "logger"
    /\ \E k \in 1..Len(accessed) :
          /\ ~FacadeAnswers(accessed[k].name)
          /\ accessed[k].result = [kind |-> "raise", name |-> "AttributeError"]
    /\ \E k \in 1..Len(accessed) :
          /\ ~FacadeDefines(accessed[k].name)
          /\ accessed[k].result.kind = "object"

\* C8: the write that triggers a sweep leaves every file younger than the
\* compression delay as it was, leaves every present file of an age from
\* the compression delay up to the retention compressed, and leaves no file
\* whose age has reached the retention.
C8_SweepPartition ==
    [][ ( /\ Ended
          /\ day > openedAt
          /\ Len(emitted') > Len(emitted) )
        =>
        \A d \in Dates :
            /\ Age(d) < DEFAULT_COMPRESSION_DELAY /\ ~Active(d) => files'[d] = files[d]
            /\ ( /\ Age(d) >= DEFAULT_COMPRESSION_DELAY
                 /\ Age(d) < DEFAULT_RETENTION
                 /\ files[d] # "absent" ) => files'[d] = "zip"
            /\ Age(d) >= DEFAULT_RETENTION => files'[d] = "absent" ]_vars

\* C10: constructing the facade with the class defaults never raises, the
\* file sink is registered only once the log directory exists, and the
\* directory exists when the construction is complete.
C10_ConstructionSucceeds ==
    /\ exc = "none"
    /\ pc # "raised"
    /\ FileHandlers # {} => dirExists
    /\ pc = "done" => dirExists

====
